---- MODULE Spec2Model ----
(***************************************************************************)
(* A model of postile (src/postile/postile.py): the tile request handlers  *)
(* get_tile_tm2 and get_tile_postgis, the process-wide Config cache they   *)
(* share, the layer query compiler prepared_query and the start-up code of *)
(* main.                                                                   *)
(*                                                                         *)
(* The handlers are asyncio coroutines on one event loop: the code between *)
(* two awaits runs as one atomic step.  The awaits are the acquisition of  *)
(* a pooled connection (async with ... acquire()), conn.fetch, and the     *)
(* release of the connection when the async with block is left.  Each      *)
(* action below is one such atomic stretch of a handler.                   *)
(*                                                                         *)
(* Text is modelled as a sequence of tokens (strings); a Python value that *)
(* may be None is a record [isNone, val].                                  *)
(***************************************************************************)
EXTENDS Integers, Sequences, FiniteSets, TLC

\* ------------------------------------------------------------------ bounds
\* The largest reading of time.monotonic() the model explores.
MaxTime == 11
\* The number of compiled queries installed in Config.tm2query in one run.
MaxInstalls == 3
\* The number of connections of the pool Config.db.
PoolSize == 1
\* The largest number of rows a tile query returns.
MaxRows == 2

\* The largest zoom level of the tile addresses given to sql_bbox.
MaxZoom == 3

\* The largest number of layer descriptors given to prepared_query.
MaxLayers == 2

\* The request tasks that may be in flight together.
Req == {"r1", "r2"}
\* The steps by which the clock advances between two events: from a stamp t
\* they reach t + 10, the last reading at which the catalog is fresh, and
\* t + 11, the first at which it is stale.
TickSteps == {5, 6}

\* --------------------------------------------------------- program constants
\* get_tile_tm2: `(time.monotonic() - Config.auto_tm2_ts) > 10`.
REFRESH_INTERVAL == 10
\* get_tile_postgis: response.text(..., status=404).
STATUS_NOT_FOUND == 404
\* response.raw(...): sanic's default status.
STATUS_OK == 200

\* ------------------------------------------------------------ Python values
NoneQuery == [isNone |-> TRUE, val |-> <<>>]
SomeQuery(q) == [isNone |-> FALSE, val |-> q]
NoneTs == [isNone |-> TRUE, val |-> 0]
SomeTs(t) == [isNone |-> FALSE, val |-> t]
NoneRows == [isNone |-> TRUE, val |-> <<>>]
SomeRows(s) == [isNone |-> FALSE, val |-> s]

\* `not v` instead of `v == None`: the empty string is falsy too.
IsNoneFalsy(v) == v.isNone \/ v.val = <<>>
\* `Config.tm2query == None`: the empty string "" (the empty template) is not None.
IsNone(v) == v.isNone

\* All sequences over S of length at most n.
SeqsUpTo(S, n) == UNION {[1..k -> S] : k \in 0..n}

RECURSIVE Flatten(_)
\* The concatenation of a sequence of sequences.
Flatten(ss) == IF ss = <<>> THEN <<>> ELSE Head(ss) \o Flatten(Tail(ss))

RECURSIVE SelectIdx(_, _, _)
\* The indices i of 1..n, in increasing order, for which keep[i] holds.
SelectIdx(keep, i, n) ==
    IF i > n THEN <<>>
    ELSE (IF keep[i] THEN <<i>> ELSE <<>>) \o SelectIdx(keep, i + 1, n)

\* All orders in which the elements of the finite set S can be listed.
Perms(S) ==
    {s \in [1..Cardinality(S) -> S] : \A i, j \in 1..Cardinality(S) : i # j => s[i] # s[j]}

\* ------------------------------------------------------------------ text
\* `needle in text`, for text cut in tokens: a token of text is the needle.
Contains(text, needle) == \E i \in 1..Len(text) : text[i] = needle

\* str.replace(old, new) on tokens: every token equal to old becomes the tokens new.
Replace(text, old, new) ==
    Flatten([i \in 1..Len(text) |-> IF text[i] = old THEN new ELSE <<text[i]>>])

\* The pieces joined last first.
JoinReversed(sep, pieces) ==
    Flatten([i \in 1..Len(pieces) |->
        IF i = 1 THEN pieces[Len(pieces)] ELSE sep \o pieces[Len(pieces) + 1 - i]])
\* str.join: the pieces with sep between each two of them; "" for no piece.
Join(sep, pieces) ==
    Flatten([i \in 1..Len(pieces) |-> IF i = 1 THEN pieces[i] ELSE sep \o pieces[i]])

\* str.format with keyword arguments: each placeholder token {name} becomes
\* the tokens args[{name}]; every other token is kept.
Format(text, args) ==
    Flatten([i \in 1..Len(text) |->
        IF text[i] \in DOMAIN args THEN args[text[i]] ELSE <<text[i]>>])

\* ------------------------------------------------------- prepared_query
\* The spellings of the keyword the pattern accepts under re.IGNORECASE.
AsKeyword == {"as", "AS", "As", "aS"}
\* Tokens that do not start with a word character (\w).
NonWord == {"(", ")", ",", "'", "!bbox!", "!min_length!", "!scale_denominator!",
            "!pixel_width!", "!pixel_height!", "::box2d", "::float", " ", "\t"}

\* The positions j at which `\)\s+as\s+\w+` can match after a leading `\(`.
LayerQueryEnds(table) ==
    {j \in 2..(Len(table) - 2) :
        /\ table[1] = "("
        /\ table[j] = ")"
        /\ table[j + 1] \in AsKeyword
        /\ table[j + 2] \notin NonWord}

\* LAYERQUERY.match(table): whether the pattern matches at the start of the text.
LayerQueryMatches(table) == LayerQueryEnds(table) # {}

\* .group("query"): `.*` is greedy, so the group ends at the last such position.
LayerQueryGroup(table) ==
    LET j == CHOOSE k \in LayerQueryEnds(table) : \A m \in LayerQueryEnds(table) : m <= k
    IN  SubSeq(table, 2, j - 1)

\* The expression that replaces the geometry column in the inner select.
MvtGeom(geometry_field) ==
    <<"st_asmvtgeom(st_intersection(", geometry_field, ",", "{bbox}", "),", "{bbox}", ")">>

\* Lines 110-120: the geometry column and the tm2 tokens are rewritten.
RewriteQuery(query, geometry_field) ==
    LET q1 == Replace(query, geometry_field, MvtGeom(geometry_field) \o <<"as", "mvtgeom">>)
        q2 == Replace(q1, "!bbox!", <<"{bbox}">>)
        q3 == Replace(q2, "!scale_denominator!", <<"{scale_denominator}">>)
        q4 == Replace(q3, "!pixel_width!", <<"{pixel_width}">>)
        q5 == Replace(q4, "!pixel_height!", <<"{pixel_height}">>)
    IN  Replace(q5, "!min_length!", <<"{min_length}">>)

\* Lines 122-127: the per-layer select around the rewritten query.
WrapQuery(id, query, geometry_field) ==
    <<"select st_asmvt(tile, '">> \o id \o <<"', 4096, 'mvtgeom') from (">>
        \o query \o <<"where">> \o MvtGeom(geometry_field)
        \o <<"is not null) as tile">>

\* One turn of the loop of prepared_query, for a layer whose table matches.
LayerSelect(layer) ==
    WrapQuery(layer.id,
              RewriteQuery(LayerQueryGroup(layer.Datasource.table),
                           layer.Datasource.geometry_field),
              layer.Datasource.geometry_field)

\* `type(filename) == 'str'`: a type object compared with a string.
PyTypeOf(v) == [kind |-> "type", val |-> v.kind]
PyStr(s) == [kind |-> "str", val |-> s]
IsStrArgument(filename) == PyTypeOf(filename) = PyStr("str")

\* prepared_query(filename): [ok, val] with val the template, or [ok, err] with
\* the exception raised.  files maps the path of a readable file to its document.
prepared_query(filename, files) ==
    LET layers == IF IsStrArgument(filename) THEN files[filename.val] ELSE filename
    IN  IF layers.kind # "dict"
        THEN [ok |-> FALSE, err |-> "TypeError", val |-> <<>>]
        ELSE LET L == layers.val IN
             IF \E i \in 1..Len(L) : ~LayerQueryMatches(L[i].Datasource.table)
             THEN [ok |-> FALSE, err |-> "AttributeError", val |-> <<>>]
             ELSE [ok |-> TRUE, err |-> "",
                   val |-> Join(<<"union all">>, [i \in 1..Len(L) |-> LayerSelect(L[i])])]

\* --------------------------------------------- get_tile_tm2: the catalog
\* Lines 180-186: the layer synthesized for an introspected table.
Source(table) ==
    [id |-> table,
     Datasource |-> [geometry_field |-> "geom",
                     table |-> <<"(", "select", "geom", "from", "layer_">> \o table
                               \o <<"(", "!bbox!", "::box2d", ",", "!min_length!",
                                    "::float", ")", ")", "AS", "t">>]]

\* The loop of lines 177-187 without the test of line 178.
SourcesUnfiltered(rows) == [k \in 1..Len(rows) |-> Source(rows[k])]
\* Lines 175-187: the sources of the rows whose table_name holds '3949', in row order.
Sources(rows) ==
    LET keep == [i \in 1..Len(rows) |-> Contains(rows[i], "3949")]
        idx == SelectIdx(keep, 1, Len(rows))
    IN  [k \in 1..Len(idx) |-> Source(rows[idx[k]])]

\* Line 188: prepared_query({'Layer': sources}).
CompileCatalog(rows) == prepared_query([kind |-> "dict", val |-> Sources(rows)], <<>>)

\* Lines 191-197: Config.tm2query.format(...); None has no attribute format.
TileArgs ==
    [t \in {"{bbox}", "{scale_denominator}", "{pixel_width}", "{pixel_height}", "{min_length}"} |->
        CASE t = "{bbox}" -> <<"bbox(x,y,z)">>
          [] t = "{scale_denominator}" -> <<"scale(z)">>
          [] t = "{pixel_width}" -> <<"256">>
          [] t = "{pixel_height}" -> <<"256">>
          [] t = "{min_length}" -> <<"min_length(z)">>]

\* The tokens str.format reads as a replacement field {name}.
ReplacementFields ==
    {"{bbox}", "{scale_denominator}", "{pixel_width}", "{pixel_height}", "{min_length}",
     "{layer}", "{geom}", "{OUTPUT_SRID}", "{scale}", "{fields}", "{highway}", "{x}"}
\* str.format raises KeyError for a replacement field no argument is named after.
MissingField(text, args) ==
    \E i \in 1..Len(text) : text[i] \in ReplacementFields \ DOMAIN args

FormatTm2(tm2query) ==
    IF tm2query.isNone
    THEN [ok |-> FALSE, err |-> "AttributeError", val |-> <<>>]
    ELSE IF MissingField(tm2query.val, TileArgs)
    THEN [ok |-> FALSE, err |-> "KeyError", val |-> <<>>]
    ELSE [ok |-> TRUE, err |-> "", val |-> Format(tm2query.val, TileArgs)]

\* --------------------------------------------------- get_tile_postgis
\* src/postile/sql.py: single_layer, cut in tokens around its placeholders.
single_layer ==
    <<"select st_asmvt(tile, '", "{layer}", "', 4096) from ( with tmp as ( select st_srid(",
      "{geom}", ") as srid from", "{layer}", "limit 1 ) select * from tmp , lateral (",
      "select st_asmvtgeom( st_simplify( st_transform(", "{geom}", ",", "{OUTPUT_SRID}",
      "),", "{scale}", ", true ),", "{bbox}", ") as mvtgeom", "{fields}", "from",
      "{layer}", "where st_transform(", "{bbox}", ", tmp.srid) &&", "{geom}",
      ") _ where mvtgeom is not null ) as tile">>

\* Line 213: `" " in layer`, layer being a sequence of characters.
HasSpace(layer) == \E i \in 1..Len(layer) : layer[i] = " "

\* Line 227: single_layer.format(**locals(), OUTPUT_SRID=output_srid).
FormatSingleLayer(layer) ==
    Format(single_layer,
        [t \in {"{layer}", "{geom}", "{OUTPUT_SRID}", "{scale}", "{bbox}", "{fields}"} |->
            CASE t = "{layer}" -> layer
              [] t = "{geom}" -> <<"geom">>
              [] t = "{OUTPUT_SRID}" -> <<"3949">>
              [] t = "{scale}" -> <<"resolution(z)">>
              [] t = "{bbox}" -> <<"bbox(x,y,z)">>
              [] t = "{fields}" -> <<>>])

\* ------------------------------------------------------- the response
\* Lines 204 and 234: b"".join([row[0] for row in rows if row[0]]); a payload is
\* [isNone, val] with val a sequence of bytes, and b"" is falsy like None.
Truthy(payload) == ~payload.isNone /\ payload.val # <<>>
\* The join that stops at the first falsy payload instead of skipping it.
JoinRowsUntilNull(rows) ==
    LET stop == {i \in 1..Len(rows) : ~Truthy(rows[i])}
        n == IF stop = {} THEN Len(rows) ELSE (CHOOSE i \in stop : \A j \in stop : i <= j) - 1
    IN  Flatten([k \in 1..n |-> rows[k].val])
JoinRows(rows) ==
    LET keep == [i \in 1..Len(rows) |-> Truthy(rows[i])]
        idx == SelectIdx(keep, 1, Len(rows))
    IN  Flatten([k \in 1..Len(idx) |-> rows[idx[k]].val])

\* response.raw(pbf, headers={"Content-Type": "application/x-protobuf"}).
RawResponse(pbf) ==
    [status |-> STATUS_OK, body |-> pbf, ctype |-> "application/x-protobuf"]
\* response.text("bad layer name: ...", status=404).
BadLayerResponse(layer) ==
    [status |-> STATUS_NOT_FOUND, body |-> <<"bad layer name: ">> \o layer, ctype |-> "text/plain"]
\* What the client gets when the handler raised: sanic answers 500.
ErrorResponse(err) ==
    [status |-> 500, body |-> <<err>>, ctype |-> "text/plain"]
\* No response: the request task was cancelled.
NoResponse == [status |-> 0, body |-> <<>>, ctype |-> ""]

\* ------------------------------------------------------------- sql_bbox
\* Lengths are binary fixed-point numbers, Unit of them to the metre: dividing
\* by 2^z is exact for z <= 7, as it is for the doubles of the source.
Unit == 128
\* Lines 39-44: map_bbox to the nearest unit; right - left and top - bottom
\* are 17907 m, as they are for the doubles of the source.
map_bbox ==
    [left |-> 210330179, bottom |-> 1045960233, right |-> 212622275, top |-> 1048252329]

RECURSIVE Gcd(_, _)
Gcd(a, b) == IF b = 0 THEN a ELSE Gcd(b, a % b)
\* a / b for a float quotient that is not a whole number of units: the
\* fraction in lowest terms.
Quotient(a, b) == [num |-> a \div Gcd(a, b), den |-> b \div Gcd(a, b)]

\* sql_bbox with the rows counted from the bottom of the extent.
sql_bbox_from_bottom(x, y, z, srid) ==
    LET tile_count == 2 ^ z
        tile_width_in_metres == (map_bbox.right - map_bbox.left) \div tile_count
        tile_height_in_metres == (map_bbox.top - map_bbox.bottom) \div tile_count
    IN  [bounds |-> [left |-> map_bbox.left + x * tile_width_in_metres,
                     bottom |-> map_bbox.bottom + y * tile_height_in_metres,
                     right |-> map_bbox.left + (x + 1) * tile_width_in_metres,
                     top |-> map_bbox.bottom + (y + 1) * tile_height_in_metres],
         srid |-> srid,
         min_length |-> Quotient(tile_width_in_metres, 50)]
\* sql_bbox(x, y, z, output_srid), lines 149-160, for the output_srid both
\* handlers pass ('3949'): the bounds of the cell and the minimum length.
sql_bbox(x, y, z, srid) ==
    LET tile_count == 2 ^ z
        tile_width_in_metres == (map_bbox.right - map_bbox.left) \div tile_count
        tile_height_in_metres == (map_bbox.top - map_bbox.bottom) \div tile_count
    IN  [bounds |-> [left |-> map_bbox.left + x * tile_width_in_metres,
                     bottom |-> map_bbox.top - (y + 1) * tile_height_in_metres,
                     right |-> map_bbox.left + (x + 1) * tile_width_in_metres,
                     top |-> map_bbox.top - y * tile_height_in_metres],
         srid |-> srid,
         min_length |-> Quotient(tile_width_in_metres, 50)]

\* ------------------------------------------------------------------ state
VARIABLES
    proc,          \* the process: "boot", "serving", or "exited" (main raised or called sys.exit)
    args_tm2,      \* the --tm2 argument: "" when absent, "auto", or the path of a file
    route,         \* the handler main routed: "none", "get_tile_tm2" or "get_tile_postgis"
    boot_err,      \* what ended main: "", "SystemExit" or the exception raised
    db_size,       \* the pool Config.db: the number of connections it can hand out
    tm2query,      \* Config.tm2query
    auto_tm2_ts,   \* Config.auto_tm2_ts
    now,           \* the reading of time.monotonic()
    schema,        \* the database: the tables that have a column named geom
    checked_out,   \* the pool Config.db: the number of connections acquired and not released
    pc,            \* per request task: the await it is suspended at, or "idle"
    exc,           \* per request task: the exception that is leaving the async with block
    layer,         \* get_tile_postgis: the layer argument of the request
    inflight,      \* per request task: the result of its introspection query, not yet delivered
    sql,           \* per request task: the local sql
    rows,          \* per request task: the local rows of the tile query
    pbf,           \* per request task: the local pbf
    resp,          \* the response sent by the step just taken (NoResponse: none was sent)
    qid,           \* the number of query objects installed in Config.tm2query so far
    used,          \* per request task: which installed query object its sql was formatted from
    checked_at,    \* per request task: while it refreshes the catalog, the clock reading of its check of line 171
    call,          \* a synchronous function called on its own: its name and arguments
    ret,           \* what that call returned or raised, once it has run
    later          \* per request task with an introspection result in flight: the tasks whose
                   \* introspection read the schema after its own, and "cache" once the query
                   \* installed was built from such a later read

conf == <<proc, args_tm2, route, boot_err, db_size>>
cache == <<tm2query, auto_tm2_ts, qid>>
store == <<schema>>
locals == <<pc, exc, layer, inflight, sql, rows, pbf, used, checked_at>>
calls == <<call, ret>>
vars == <<conf, cache, store, locals, now, checked_out, resp, calls, later>>

\* ------------------------------------------------------------ the inputs
\* Table names, cut so that the reference identifier is a token of its own.
TableA == <<"a_", "3949">>
TablePoi == <<"poi">>
Tables == {TableA, TablePoi}

\* Layer names of direct-layer requests, as sequences of characters.
LayerNames == {<<"p", "o", "i">>, <<"b", "a", "d", " ", "l">>, <<"b", "a", "d", "\t", "l">>}

\* The values --tm2 takes, and the files that exist (os.path.exists).
Tm2Args == {"", "auto", "layers.yml", "missing.yml"}
Files == [f \in {"layers.yml"} |->
            [kind |-> "dict",
             val |-> <<[id |-> <<"roads">>,
                        Datasource |-> [geometry_field |-> "geometry",
                                        table |-> <<"(", "select", "geometry", "from", "roads",
                                                    ")", "as", "t">>]]>>]]

\* Payloads of result rows: None, b"" and two non-empty byte strings.
Payloads == {[isNone |-> TRUE, val |-> <<>>], [isNone |-> FALSE, val |-> <<>>],
             [isNone |-> FALSE, val |-> <<1>>], [isNone |-> FALSE, val |-> <<2>>]}
RowSets == SeqsUpTo(Payloads, MaxRows)
\* The results of the tile query where the payloads themselves do not matter:
\* no row, a null row, a row with a payload.
TileResults == {<<>>, <<[isNone |-> TRUE, val |-> <<>>]>>, <<[isNone |-> FALSE, val |-> <<1>>]>>}

NoSql == [isNone |-> TRUE, val |-> <<>>]
NoPbf == [isNone |-> TRUE, val |-> <<>>]

\* No function is called on its own.
NoCall == [fn |-> "none", args |-> <<>>]
NoRet == [done |-> FALSE]

\* ------------------------------------------------------------------ Init
\* The module is imported: Config holds its class attributes, no task runs.
Imported ==
    /\ proc = "boot"
    /\ args_tm2 = ""
    /\ route = "none"
    /\ boot_err = ""
    /\ tm2query = NoneQuery
    /\ auto_tm2_ts = NoneTs
    /\ now = 0
    /\ checked_out = 0
    /\ pc = [r \in Req |-> "idle"]
    /\ exc = [r \in Req |-> "none"]
    /\ layer = [r \in Req |-> <<>>]
    /\ inflight = [r \in Req |-> NoneRows]
    /\ sql = [r \in Req |-> NoSql]
    /\ rows = [r \in Req |-> NoneRows]
    /\ pbf = [r \in Req |-> NoPbf]
    /\ resp = NoResponse
    /\ qid = 0
    /\ used = [r \in Req |-> 0]
    /\ checked_at = [r \in Req |-> 0]
    /\ later = [r \in Req |-> {}]

\* The server before main runs.
Init ==
    /\ Imported
    /\ schema \in SUBSET Tables
    /\ db_size = PoolSize
    /\ call = NoCall
    /\ ret = NoRet

\* ------------------------------------------------------------------ main
\* main(), lines 262-287, for one value of --tm2.
Main(arg) ==
    /\ proc = "boot"
    /\ args_tm2' = arg
    /\ LET static == arg # "" /\ arg # "auto"
           compiled == prepared_query(PyStr(arg), Files)
       IN  IF arg = ""
           THEN /\ route' = "get_tile_postgis"
                /\ proc' = "serving"
                /\ UNCHANGED <<boot_err, tm2query>>
           ELSE IF ~static
           THEN /\ route' = "get_tile_tm2"
                /\ proc' = "serving"
                /\ UNCHANGED <<boot_err, tm2query>>
           ELSE IF arg \notin DOMAIN Files
           THEN /\ proc' = "exited"
                /\ boot_err' = "SystemExit"
                /\ UNCHANGED <<route, tm2query>>
           ELSE IF ~compiled.ok
           THEN /\ proc' = "exited"
                /\ boot_err' = compiled.err
                /\ UNCHANGED <<route, tm2query>>
           ELSE /\ tm2query' = SomeQuery(compiled.val)
                /\ route' = "get_tile_tm2"
                /\ proc' = "serving"
                /\ UNCHANGED boot_err
    /\ UNCHANGED <<db_size, auto_tm2_ts, qid, store, locals, now, checked_out, resp, calls, later>>

\* ---------------------------------------------------------- get_tile_tm2
\* Line 171: `Config.tm2query == None or (time.monotonic() - Config.auto_tm2_ts) > 10`.
\* The second operand is evaluated only when the first is false, and a float
\* minus None raises TypeError.
StaleFromInterval(ts, t) == t - ts.val >= REFRESH_INTERVAL
Stale(ts, t) == t - ts.val > REFRESH_INTERVAL
\* The condition without the cache: every request refreshes.
Line171NoCache(q, ts, t) == "refresh"
\* The condition without its second operand: a cached query never expires.
Line171NeverStale(q, ts, t) == IF IsNone(q) THEN "refresh" ELSE "fresh"
Line171(q, ts, t) ==
    IF IsNone(q) THEN "refresh"
    ELSE IF ts.isNone THEN "TypeError"
    ELSE IF Stale(ts, t) THEN "refresh"
    ELSE "fresh"

\* The handler returns or raises: the task ends and its locals are gone.
Finish(r, response) ==
    /\ pc' = [pc EXCEPT ![r] = "idle"]
    /\ exc' = [exc EXCEPT ![r] = "none"]
    /\ layer' = [layer EXCEPT ![r] = <<>>]
    /\ inflight' = [inflight EXCEPT ![r] = NoneRows]
    /\ sql' = [sql EXCEPT ![r] = NoSql]
    /\ rows' = [rows EXCEPT ![r] = NoneRows]
    /\ pbf' = [pbf EXCEPT ![r] = NoPbf]
    /\ used' = [used EXCEPT ![r] = 0]
    /\ checked_at' = [checked_at EXCEPT ![r] = 0]
    /\ resp' = response

\* Lines 191-201: the cached query is formatted and the task waits for a
\* connection; formatting None raises.
FormatAndAcquire(r) ==
    LET f == FormatTm2(tm2query)
    IN  IF f.ok
        THEN /\ sql' = [sql EXCEPT ![r] = [isNone |-> FALSE, val |-> f.val]]
             /\ used' = [used EXCEPT ![r] = qid]
             /\ checked_at' = [checked_at EXCEPT ![r] = 0]
             /\ pc' = [pc EXCEPT ![r] = "acquire_tile"]
             /\ exc' = [exc EXCEPT ![r] = "none"]
             /\ resp' = NoResponse
             /\ UNCHANGED <<layer, inflight, rows, pbf>>
        ELSE Finish(r, ErrorResponse(f.err))

\* A request arrives: lines 163-173, up to the first await of the handler.
StartTm2(r) ==
    /\ proc = "serving"
    /\ route = "get_tile_tm2"
    /\ pc[r] = "idle"
    /\ LET c == Line171(tm2query, auto_tm2_ts, now)
       IN  CASE c = "refresh" ->
                  /\ pc' = [pc EXCEPT ![r] = "acquire_catalog"]
                  /\ resp' = NoResponse
                  /\ checked_at' = [checked_at EXCEPT ![r] = now]
                  /\ UNCHANGED <<exc, layer, inflight, sql, rows, pbf, used>>
             [] c = "fresh" -> FormatAndAcquire(r)
             [] c = "TypeError" -> Finish(r, ErrorResponse("TypeError"))
    /\ UNCHANGED <<conf, calls, later, cache, store, now, checked_out>>

\* `async with Config.db.acquire() as conn` (lines 173, 201, 232): the pool
\* hands out a connection when it has one.
Acquire(r) ==
    /\ pc[r] \in {"acquire_catalog", "acquire_tile"}
    /\ checked_out < db_size
    /\ checked_out' = checked_out + 1
    /\ pc' = [pc EXCEPT ![r] = IF pc[r] = "acquire_catalog" THEN "fetch_catalog" ELSE "fetch_tile"]
    /\ UNCHANGED <<conf, calls, later, cache, store, now,
                   exc, layer, inflight, sql, rows, pbf, used, checked_at>>
    /\ resp' = NoResponse

\* The database executes the introspection query of line 174: it reads the
\* schema; the order of the rows is not specified by the query.
StoreExec(r) ==
    /\ pc[r] = "fetch_catalog"
    /\ inflight[r].isNone
    /\ qid + Cardinality({q \in DOMAIN inflight : ~inflight[q].isNone}) < MaxInstalls
    /\ \E result \in Perms(schema) : inflight' = [inflight EXCEPT ![r] = SomeRows(result)]
    /\ later' = [q \in Req |-> IF q = r THEN {}
                                ELSE IF inflight[q].isNone THEN later[q]
                                ELSE later[q] \cup {r}]
    /\ UNCHANGED <<conf, calls, cache, store, now, checked_out,
                   pc, exc, layer, sql, rows, pbf, used, checked_at>>
    /\ resp' = NoResponse

\* Line 188 without line 189: the query is replaced, the stamp is not.
InstallKeepsStamp(q, t) == <<SomeQuery(q), auto_tm2_ts>>
\* Lines 188-189: what the refresh leaves in Config, given the compiled template.
Install(q, t) == <<SomeQuery(q), SomeTs(t)>>

\* conn.fetch of line 174 returns: lines 175-189 run, then the block is left.
FetchCatalog(r) ==
    /\ pc[r] = "fetch_catalog"
    /\ ~inflight[r].isNone
    /\ LET compiled == CompileCatalog(inflight[r].val)
       IN  IF compiled.ok
           THEN /\ tm2query' = Install(compiled.val, now)[1]
                /\ auto_tm2_ts' = Install(compiled.val, now)[2]
                /\ qid' = qid + 1
                /\ exc' = [exc EXCEPT ![r] = "none"]
                /\ later' = [q \in Req |-> IF q = r THEN {}
                                            ELSE IF r \in later[q]
                                            THEN (later[q] \ {r}) \cup {"cache"}
                                            ELSE later[q] \ {"cache"}]
           ELSE /\ exc' = [exc EXCEPT ![r] = compiled.err]
                /\ later' = [q \in Req |-> IF q = r THEN {} ELSE later[q] \ {r}]
                /\ UNCHANGED cache
    /\ inflight' = [inflight EXCEPT ![r] = NoneRows]
    /\ pc' = [pc EXCEPT ![r] = "release_catalog"]
    /\ UNCHANGED <<conf, calls, store, now, checked_out, layer, sql, rows, pbf, used, checked_at>>
    /\ resp' = NoResponse

\* Lines 204 and 234: conn.fetch(sql) returns rows, pbf is built, the block is left.
FetchTile(r, result) ==
    /\ pc[r] = "fetch_tile"
    /\ rows' = [rows EXCEPT ![r] = SomeRows(result)]
    /\ pbf' = [pbf EXCEPT ![r] = [isNone |-> FALSE, val |-> JoinRows(result)]]
    /\ pc' = [pc EXCEPT ![r] = "release_tile"]
    /\ UNCHANGED <<conf, calls, later, cache, store, now, checked_out,
                   exc, layer, inflight, sql, used, checked_at>>
    /\ resp' = NoResponse

\* conn.fetch raises and a handler drops the cached query with it.
FetchFailInvalidates(r) ==
    /\ pc[r] \in {"fetch_catalog", "fetch_tile"}
    /\ exc' = [exc EXCEPT ![r] = "StoreError"]
    /\ later' = [q \in Req |-> IF q = r THEN {} ELSE later[q] \ {r}]
    /\ inflight' = [inflight EXCEPT ![r] = NoneRows]
    /\ pc' = [pc EXCEPT ![r] = IF pc[r] = "fetch_catalog" THEN "release_catalog" ELSE "release_tile"]
    /\ tm2query' = NoneQuery
    /\ auto_tm2_ts' = NoneTs
    /\ UNCHANGED <<conf, calls, qid, store, now, checked_out,
                   layer, sql, rows, pbf, used, checked_at>>
    /\ resp' = NoResponse

\* conn.fetch raises (lines 174, 203, 233): the exception leaves the block.
FetchFail(r) ==
    /\ pc[r] \in {"fetch_catalog", "fetch_tile"}
    /\ exc' = [exc EXCEPT ![r] = "StoreError"]
    /\ later' = [q \in Req |-> IF q = r THEN {} ELSE later[q] \ {r}]
    /\ inflight' = [inflight EXCEPT ![r] = NoneRows]
    /\ pc' = [pc EXCEPT ![r] = IF pc[r] = "fetch_catalog" THEN "release_catalog" ELSE "release_tile"]
    /\ UNCHANGED <<conf, calls, cache, store, now, checked_out,
                   layer, sql, rows, pbf, used, checked_at>>
    /\ resp' = NoResponse

\* The task is cancelled while it waits for a connection (it holds none and
\* ends) or for conn.fetch (CancelledError leaves the block).
Cancel(r) ==
    /\ pc[r] \in {"acquire_catalog", "acquire_tile", "fetch_catalog", "fetch_tile"}
    /\ later' = [q \in Req |-> IF q = r THEN {} ELSE later[q] \ {r}]
    /\ IF pc[r] \in {"acquire_catalog", "acquire_tile"}
       THEN Finish(r, NoResponse)
       ELSE /\ exc' = [exc EXCEPT ![r] = "CancelledError"]
            /\ inflight' = [inflight EXCEPT ![r] = NoneRows]
            /\ pc' = [pc EXCEPT ![r] = IF pc[r] = "fetch_catalog"
                                       THEN "release_catalog" ELSE "release_tile"]
            /\ UNCHANGED <<layer, sql, rows, pbf, used, checked_at>>
            /\ resp' = NoResponse
    /\ UNCHANGED <<conf, calls, cache, store, now, checked_out>>

\* A release written after the block instead of a context manager: an
\* exception skips it.
AExitLeaksOnError(held, e) == IF e = "none" THEN held - 1 ELSE held
\* __aexit__ of the pool's context manager: the connection goes back to the
\* pool whether or not an exception is leaving the block.
AExit(held, e) == held - 1

\* What the client gets for the exception e that left the handler.
Raised(e) == IF e = "CancelledError" THEN NoResponse ELSE ErrorResponse(e)

\* The tile query nested in the block of the introspection: the task goes on
\* to wait for a second connection while it keeps the first.
ReleaseCatalogNested(r) ==
    /\ pc[r] = "release_catalog"
    /\ checked_out' = checked_out
    /\ IF exc[r] = "none" THEN FormatAndAcquire(r) ELSE Finish(r, Raised(exc[r]))
    /\ UNCHANGED <<conf, calls, later, cache, store, now>>
\* The block of lines 173-189 is left: the connection is released; then either
\* the exception propagates or the handler goes on with lines 191-201.
ReleaseCatalog(r) ==
    /\ pc[r] = "release_catalog"
    /\ checked_out' = AExit(checked_out, exc[r])
    /\ IF exc[r] = "none" THEN FormatAndAcquire(r) ELSE Finish(r, Raised(exc[r]))
    /\ UNCHANGED <<conf, calls, later, cache, store, now>>

\* The block of lines 201-204 (232-234) is left: the connection is released;
\* then the exception propagates or the handler returns the response.
ReleaseTile(r) ==
    /\ pc[r] = "release_tile"
    /\ checked_out' = AExit(checked_out, exc[r])
    /\ IF exc[r] = "none" THEN Finish(r, RawResponse(pbf[r].val)) ELSE Finish(r, Raised(exc[r]))
    /\ UNCHANGED <<conf, calls, later, cache, store, now>>

\* ------------------------------------------------------ get_tile_postgis
\* A request arrives: lines 209-232, up to the first await of the handler.
StartPostgis(r, name) ==
    /\ proc = "serving"
    /\ route = "get_tile_postgis"
    /\ pc[r] = "idle"
    /\ IF HasSpace(name)
       THEN Finish(r, BadLayerResponse(name))
       ELSE /\ layer' = [layer EXCEPT ![r] = name]
            /\ sql' = [sql EXCEPT ![r] = [isNone |-> FALSE, val |-> FormatSingleLayer(name)]]
            /\ pc' = [pc EXCEPT ![r] = "acquire_tile"]
            /\ resp' = NoResponse
            /\ UNCHANGED <<exc, inflight, rows, pbf, used, checked_at>>
    /\ UNCHANGED <<conf, calls, later, cache, store, now, checked_out>>

\* ------------------------------------------------------ the environment
\* Time passes; only get_tile_tm2 reads the clock.
Tick(d) ==
    /\ proc = "serving"
    /\ route = "get_tile_tm2"
    /\ now + d <= MaxTime
    /\ now' = now + d
    /\ UNCHANGED <<conf, calls, later, cache, store, locals, checked_out>>
    /\ resp' = NoResponse

\* A table with a geom column is created or dropped; only the introspection
\* query of get_tile_tm2 reads the schema.
SchemaChange(t) ==
    /\ proc = "serving"
    /\ route = "get_tile_tm2"
    /\ schema' = IF t \in schema THEN schema \ {t} ELSE schema \cup {t}
    /\ UNCHANGED <<conf, calls, later, cache, locals, now, checked_out>>
    /\ resp' = NoResponse

\* The steps of the server with the request tasks R, the tile query returning
\* one of the results RS.
NextOver(R, RS) ==
    \/ \E arg \in Tm2Args : Main(arg)
    \/ \E r \in R : StartTm2(r)
    \/ \E r \in R : Acquire(r)
    \/ \E r \in R : StoreExec(r)
    \/ \E r \in R : FetchCatalog(r)
    \/ \E r \in R, result \in RS : FetchTile(r, result)
    \/ \E r \in R : FetchFail(r)
    \/ \E r \in R : Cancel(r)
    \/ \E r \in R : ReleaseCatalog(r)
    \/ \E r \in R : ReleaseTile(r)
    \/ \E r \in R, name \in LayerNames : StartPostgis(r, name)
    \/ \E d \in TickSteps : Tick(d)
    \/ \E t \in Tables : SchemaChange(t)

Next == NextOver(Req, TileResults)

\* The server with concurrent request tasks.
Spec == Init /\ [][Next]_vars

\* One request task at a time, the tile query returning any rows.
NextTiles == NextOver({"r1"}, RowSets)
SpecTiles == Init /\ [][NextTiles]_vars

\* --------------------------------------------------- fair scheduling
\* A step of the store for request r: its query is executed, returns or raises.
StoreStep(r) ==
    \/ StoreExec(r)
    \/ FetchCatalog(r)
    \/ FetchFail(r)
    \/ \E result \in TileResults : FetchTile(r, result)
\* The event loop resumes a task that left its async with block.
Resume(r) == ReleaseCatalog(r) \/ ReleaseTile(r)
\* The pool serves its waiters in turn, so a task that waits for a connection
\* gets one if connections keep coming back; the event loop runs every task
\* that can go on; and store calls terminate: FetchFail(r) is enabled exactly
\* while a call of r is pending, so weak fairness on it says that no call stays
\* pending for ever, whether it ends by returning, raising or cancellation.
Fairness ==
    \A r \in Req : SF_vars(Acquire(r)) /\ WF_vars(FetchFail(r)) /\ WF_vars(Resume(r))
\* The server on an unchanging schema: what a request waits for does not
\* depend on the tables the introspection finds.
NextFair ==
    \/ \E arg \in Tm2Args : Main(arg)
    \/ \E r \in Req : StartTm2(r)
    \/ \E r \in Req, name \in LayerNames : StartPostgis(r, name)
    \/ \E r \in Req : Acquire(r)
    \/ \E r \in Req : StoreStep(r)
    \/ \E r \in Req : Resume(r)
    \/ \E r \in Req : Cancel(r)
    \/ \E d \in TickSteps : Tick(d)
SpecFair == Init /\ [][NextFair]_vars /\ Fairness

\* ------------------------------------------- a pool with a spare connection
\* The pool has a connection more than PoolSize: enough for both request
\* tasks to run their introspection queries at the same time.
InitOverlap ==
    /\ Imported
    /\ schema \in SUBSET Tables
    /\ db_size = PoolSize + 1
    /\ call = NoCall
    /\ ret = NoRet
SpecOverlap == InitOverlap /\ [][Next]_vars

\* -------------------------------------------- the catalog of any schema
\* A table whose name holds the name of the geometry column ("geom_3949").
TableGeom == <<"geom", "_", "3949">>
\* One request task, the database holding any of the tables from the start.
InitCatalog ==
    /\ Imported
    /\ schema \in SUBSET (Tables \cup {TableGeom})
    /\ db_size = PoolSize
    /\ call = NoCall
    /\ ret = NoRet
NextCatalog == NextOver({"r1"}, TileResults)
SpecCatalog == InitCatalog /\ [][NextCatalog]_vars

\* ------------------------------------------------- sql_bbox on its own
\* The tile addresses of the zoom levels up to MaxZoom.
TileAddresses ==
    UNION {{<<x, y, z>> : x \in 0..(2 ^ z - 1), y \in 0..(2 ^ z - 1)} : z \in 0..MaxZoom}

InitBbox ==
    /\ Imported
    /\ schema = {}
    /\ db_size = PoolSize
    /\ call \in {[fn |-> "sql_bbox", args |-> a] : a \in TileAddresses}
    /\ ret = NoRet

\* Line 169 (222): bbox, min_length = sql_bbox(x, y, z, '3949').
CallSqlBbox ==
    /\ call.fn = "sql_bbox"
    /\ ~ret.done
    /\ ret' = [done |-> TRUE,
               val |-> sql_bbox(call.args[1], call.args[2], call.args[3], "3949")]
    /\ UNCHANGED <<conf, cache, store, locals, now, checked_out, resp, call, later>>

NextBbox == CallSqlBbox
SpecBbox == InitBbox /\ [][NextBbox]_vars

\* ------------------------------------------- prepared_query on its own
\* The table texts of layer descriptors: every tm2 token used; no wrapper at
\* all; no alias; content after the alias; a PostgreSQL array literal.
TableAllTokens ==
    <<"(", "select", "geom", "from", "roads", "where", "geom", "&&", "!bbox!",
      "and", "!scale_denominator!", "<", "minscale", "and", "!pixel_width!", "=",
      "!pixel_height!", "and", "len", ">", "!min_length!", ")", "as", "t">>
TableNoWrapper == <<"select", "geom", "from", "roads">>
TableNoAlias == <<"(", "select", "geom", "from", "roads", ")", "as">>
TableTrailing == <<"(", "select", "geom", "from", "roads", ")", "as", "t", "where", "false">>
TableArrayLiteral ==
    <<"(", "select", "geom", "from", "roads", "where", "tags", "&&", "'", "{highway}", "'",
      ")", "AS", "t">>
Descriptor(id, table) ==
    [id |-> <<id>>, Datasource |-> [geometry_field |-> "geom", table |-> table]]
\* A table whose name holds braces ("t{x}3949").
TableBraces == <<"t", "{x}", "3949">>
\* The layer descriptors prepared_query is given: written by hand, and
\* synthesized by the catalog refresh.
Descriptors ==
    {Descriptor("roads", TableAllTokens), Descriptor("bare", TableNoWrapper),
     Descriptor("noalias", TableNoAlias), Descriptor("trailing", TableTrailing),
     Descriptor("tags", TableArrayLiteral), Source(TableA), Source(TableBraces)}

InitCompile ==
    /\ Imported
    /\ schema = {}
    /\ db_size = PoolSize
    /\ call \in {[fn |-> "prepared_query", args |-> L] : L \in SeqsUpTo(Descriptors, MaxLayers)}
    /\ ret = NoRet

\* prepared_query({'Layer': layers}), as line 188 calls it.
CallPreparedQuery ==
    /\ call.fn = "prepared_query"
    /\ ~ret.done
    /\ ret' = [done |-> TRUE, formatted |-> FALSE,
               val |-> prepared_query([kind |-> "dict", val |-> call.args], <<>>),
               sql |-> [ok |-> FALSE, err |-> "", val |-> <<>>]]
    /\ UNCHANGED <<conf, cache, store, locals, now, checked_out, resp, call, later>>

\* Lines 191-197: the template returned is formatted with the five values.
FormatTemplate ==
    /\ call.fn = "prepared_query"
    /\ ret.done
    /\ ret.val.ok
    /\ ~ret.formatted
    /\ ret' = [ret EXCEPT !.formatted = TRUE, !.sql = FormatTm2(SomeQuery(ret.val.val))]
    /\ UNCHANGED <<conf, cache, store, locals, now, checked_out, resp, call, later>>

NextCompile == CallPreparedQuery \/ FormatTemplate
SpecCompile == InitCompile /\ [][NextCompile]_vars

\* ================================================================ claims
\* The awaits of the catalog refresh, and those of the tile query.
CatalogPcs == {"acquire_catalog", "fetch_catalog", "release_catalog"}
TilePcs == {"acquire_tile", "fetch_tile", "release_tile"}
\* The awaits at which a task holds a connection.
HoldingPcs == {"fetch_catalog", "release_catalog", "fetch_tile", "release_tile"}

\* The server runs in auto mode (--tm2 auto).
AutoMode == proc = "serving" /\ args_tm2 = "auto"
\* Request r's handler get_tile_tm2 is entered by this step.
Arrives(r) == route = "get_tile_tm2" /\ pc[r] = "idle" /\ pc'[r] # "idle"
\* The elements of a sequence.
Range(seq) == {seq[i] : i \in 1..Len(seq)}
\* The tables whose name holds the reference identifier.
Matching(S) == {t \in S : \E i \in 1..Len(t) : t[i] = "3949"}

RECURSIVE LayerIdsFrom(_, _)
\* The layer ids a compiled template encodes, read off its text from token i on.
LayerIdsFrom(text, i) ==
    IF i > Len(text) THEN <<>>
    ELSE IF text[i] = "select st_asmvt(tile, '"
    THEN LET ends == {k \in (i + 1)..Len(text) : text[k] = "', 4096, 'mvtgeom') from ("}
             j == CHOOSE k \in ends : \A m \in ends : k <= m
         IN  <<SubSeq(text, i + 1, j - 1)>> \o LayerIdsFrom(text, j + 1)
    ELSE LayerIdsFrom(text, i + 1)
LayerIdSet(text) == Range(LayerIdsFrom(text, 1))

\* The templates a catalog refresh can build from a complete result set.
FullyBuilt(q) == \E S \in SUBSET Tables : \E rs \in Perms(S) : q = CompileCatalog(rs).val

\* ------------------------------------------------------------------- C1
\* C1: in static mode (--tm2 names an existing descriptor file) the server
\* serves, Config.tm2query is the query compiled once from that file and is
\* never replaced, no request enters the catalog refresh, and no request fails
\* on the unstamped Config.auto_tm2_ts.
C1_StaticServesCompiledQuery ==
    (proc # "boot" /\ args_tm2 \in DOMAIN Files) =>
        /\ proc = "serving"
        /\ tm2query = SomeQuery(prepared_query(Files[args_tm2], Files).val)
        /\ qid = 0
        /\ \A r \in Req : pc[r] \notin CatalogPcs
        /\ resp # ErrorResponse("TypeError")

\* ------------------------------------------------------------------- C2
\* C2: in auto mode a request that is about to format the cached query finds
\* it non-null, every formatted sql comes from an installed, completely
\* compiled query, no request fails on a null query, and whenever
\* Config.tm2query is replaced Config.auto_tm2_ts is stamped in the same step.
C2_FormatsInstalledQuery ==
    AutoMode =>
        /\ \A r \in Req : (pc[r] = "release_catalog" /\ exc[r] = "none") =>
                (~tm2query.isNone /\ FullyBuilt(tm2query.val))
        /\ \A r \in Req : pc[r] \in {"acquire_tile", "fetch_tile"} =>
                (~sql[r].isNone /\ used[r] >= 1 /\ used[r] <= qid)
        /\ resp \notin {ErrorResponse("AttributeError"), ErrorResponse("TypeError")}
        /\ tm2query.isNone <=> qid = 0
C2_ReplacedAndStamped ==
    (AutoMode /\ (tm2query' # tm2query \/ qid' # qid)) =>
        /\ ~tm2query'.isNone
        /\ FullyBuilt(tm2query'.val)
        /\ auto_tm2_ts' = SomeTs(now)
        /\ qid' = qid + 1
C2_NoNullOrPartialQuery == [](C2_FormatsInstalledQuery) /\ [][C2_ReplacedAndStamped]_vars
\* Both requests refreshed the Empty catalog at the same time and formatted.
C2_Witness ==
    /\ AutoMode
    /\ now = 0
    /\ qid = 2
    /\ \A r \in Req : pc[r] \in {"acquire_tile", "fetch_tile"} /\ ~sql[r].isNone

\* ------------------------------------------------------------------- C3
\* C3: a request starts a catalog refresh exactly when, at its check,
\* Config.tm2query is null or now - Config.auto_tm2_ts > 10; otherwise it goes
\* straight to the tile query, leaves the cache as it is and never issues the
\* introspection query.
C3_CheckStep ==
    \A r \in Req : Arrives(r) =>
        LET needed == tm2query.isNone \/ now - auto_tm2_ts.val > REFRESH_INTERVAL
        IN  /\ (pc'[r] = "acquire_catalog") <=> needed
            /\ ~needed => /\ pc'[r] = "acquire_tile"
                          /\ UNCHANGED <<tm2query, auto_tm2_ts, qid>>
                          /\ inflight' = inflight
C3_NoLateRefresh ==
    \A r \in Req : (pc[r] \in TilePcs) => (pc'[r] \in TilePcs \cup {"idle"})
C3_RefreshIffNullOrStale == [][C3_CheckStep /\ C3_NoLateRefresh]_vars
\* One query was installed, two requests went on to the tile query, and the
\* catalog is exactly as old as the interval.
C3_Witness ==
    /\ AutoMode
    /\ qid = 1
    /\ now - auto_tm2_ts.val = REFRESH_INTERVAL
    /\ \A r \in Req : pc[r] = "acquire_tile"

C4_FreshCheck ==
    \A r \in Req :
        (Arrives(r) /\ ~tm2query.isNone /\ ~auto_tm2_ts.isNone
            /\ now - auto_tm2_ts.val <= REFRESH_INTERVAL) =>
        /\ pc'[r] = "acquire_tile"
        /\ used'[r] = qid
        /\ sql'[r] = [isNone |-> FALSE, val |-> Format(tm2query.val, TileArgs)]
        /\ UNCHANGED <<tm2query, auto_tm2_ts, qid>>
        /\ inflight' = inflight
C4_SameObjectSameSql ==
    \A r1, r2 \in Req :
        (AutoMode /\ pc[r1] \in {"acquire_tile", "fetch_tile"} /\ pc[r2] \in {"acquire_tile", "fetch_tile"}
            /\ used[r1] = used[r2]) => sql[r1] = sql[r2]
C5_InstallStep ==
    \A r \in Req :
        (AutoMode /\ pc[r] = "fetch_catalog" /\ pc'[r] = "release_catalog" /\ exc'[r] = "none") =>
        /\ ~inflight[r].isNone
        /\ ~tm2query'.isNone
        /\ LayerIdSet(tm2query'.val) = Matching(Range(inflight[r].val))
        /\ Len(LayerIdsFrom(tm2query'.val, 1)) = Cardinality(Matching(Range(inflight[r].val)))
        /\ auto_tm2_ts' = SomeTs(now)
C5_QuietWhileFresh ==
    (/\ AutoMode
     /\ \A r \in Req : pc[r] \notin CatalogPcs
     /\ ~tm2query.isNone
     /\ now - auto_tm2_ts.val <= REFRESH_INTERVAL)
        => \A r \in Req : pc'[r] \notin CatalogPcs
C5_RefreshesConverge == [][C5_InstallStep /\ C5_QuietWhileFresh]_vars
\* The catalog was populated at time 0 and is stale at time 11: both requests
\* found it stale, one has installed its query, the other is about to refresh.
C5_Witness ==
    /\ AutoMode
    /\ qid = 2
    /\ auto_tm2_ts = SomeTs(11)
    /\ \E r1, r2 \in Req :
          /\ pc[r1] = "release_catalog" /\ exc[r1] = "none" /\ checked_at[r1] = 11
          /\ pc[r2] = "acquire_catalog" /\ checked_at[r2] = 11

\* ------------------------------------------------------------------- C6
\* C6: the step in which conn.fetch raises changes neither Config.tm2query nor
\* Config.auto_tm2_ts; the failing request ends with an error response, and
\* that step too leaves the cache and the other requests' sql alone; a
\* Populated cache never becomes null again.
C6_FailingStep ==
    \A r \in Req :
        (pc[r] \in {"fetch_catalog", "fetch_tile"} /\ exc'[r] = "StoreError") =>
            UNCHANGED <<tm2query, auto_tm2_ts, qid>>
C6_RequestFails ==
    \A r \in Req :
        (pc[r] \in {"release_catalog", "release_tile"} /\ exc[r] = "StoreError" /\ pc'[r] # pc[r]) =>
            /\ pc'[r] = "idle"
            /\ resp' = ErrorResponse("StoreError")
            /\ UNCHANGED <<tm2query, auto_tm2_ts, qid>>
            /\ \A q \in Req \ {r} : sql'[q] = sql[q] /\ pc'[q] = pc[q] /\ used'[q] = used[q]
C6_NeverNullAgain == ~tm2query.isNone => (~tm2query'.isNone /\ ~auto_tm2_ts'.isNone)
C6_StoreFailureKeepsCache == [][C6_FailingStep /\ C6_RequestFails /\ C6_NeverNullAgain]_vars
\* A refresh failed in the store while another request holds sql formatted
\* from the cached query.
C6_Witness ==
    /\ AutoMode
    /\ ~tm2query.isNone
    /\ \E r, q \in Req :
          /\ pc[r] = "release_catalog" /\ exc[r] = "StoreError"
          /\ pc[q] = "acquire_tile" /\ used[q] = qid

\* ------------------------------------------------------------------- C7
\* C7: the connections checked out of the pool are exactly those of the
\* requests inside an async with block; when no request is in flight none is
\* checked out.
C7_ConnectionsReleased ==
    /\ checked_out = Cardinality({r \in Req : pc[r] \in HoldingPcs})
    /\ (\A r \in Req : pc[r] = "idle") => checked_out = 0
\* A request has just failed on a store error and nothing is in flight.
C7_Witness ==
    /\ \A r \in Req : pc[r] = "idle"
    /\ resp = ErrorResponse("StoreError")
    /\ checked_out = 0

\* ------------------------------------------------------------------- C8
\* C8: no direct-layer request whose layer name holds a whitespace character
\* (space, tab, newline, ...) gets past the check of the name: it never waits
\* for a connection nor runs a query.
Whitespace == {" ", "\t", "\n", "\r", "\f"}
C8_WhitespaceLayerRejected ==
    \A r \in Req : pc[r] # "idle" => ~(\E i \in 1..Len(layer[r]) : layer[r][i] \in Whitespace)

\* ------------------------------------------------------------------- C9
\* C9: prepared_query of an empty Layer list returns the empty template; a
\* refresh whose rows hold no matching table does not raise, installs that
\* template (which is not null) and stamps it; and a request that arrives
\* within the interval on that catalog does not refresh.
C9_EmptyInstall ==
    \A r \in Req :
        (/\ AutoMode
         /\ pc[r] = "fetch_catalog" /\ ~inflight[r].isNone
         /\ Matching(Range(inflight[r].val)) = {}
         /\ pc'[r] = "release_catalog" /\ exc'[r] \notin {"StoreError", "CancelledError"}) =>
        /\ exc'[r] = "none"
        /\ tm2query' = [isNone |-> FALSE, val |-> <<>>]
        /\ auto_tm2_ts' = SomeTs(now)
C9_EmptyIsFresh ==
    \A r \in Req :
        (/\ Arrives(r)
         /\ tm2query = [isNone |-> FALSE, val |-> <<>>]
         /\ now - auto_tm2_ts.val <= REFRESH_INTERVAL) =>
        /\ pc'[r] = "acquire_tile"
        /\ sql'[r] = [isNone |-> FALSE, val |-> <<>>]
C9_EmptyCatalogIsPopulated ==
    /\ [](prepared_query([kind |-> "dict", val |-> <<>>], <<>>) = [ok |-> TRUE, err |-> "", val |-> <<>>])
    /\ [][C9_EmptyInstall /\ C9_EmptyIsFresh]_vars
\* The empty template was installed once and both requests went on to the
\* tile query: one of them did not refresh.
C9_Witness ==
    /\ AutoMode
    /\ tm2query = [isNone |-> FALSE, val |-> <<>>]
    /\ qid = 1
    /\ \A r \in Req : pc[r] = "acquire_tile" /\ sql[r].val = <<>>

\* ------------------------------------------------------------------ C10
RECURSIVE ConcatNonNull(_)
\* The payloads that are not null, concatenated in row order.
ConcatNonNull(rs) ==
    IF rs = <<>> THEN <<>>
    ELSE (IF Head(rs).isNone THEN <<>> ELSE Head(rs).val) \o ConcatNonNull(Tail(rs))
\* C10: pbf is the concatenation, in row order, of the non-null payloads of
\* the rows returned, and the handler answers 200 with that body (empty when
\* no row contributes) and Content-Type application/x-protobuf.
C10_PbfIsConcat ==
    \A r \in Req : (pc[r] = "release_tile" /\ exc[r] = "none") =>
        /\ ~rows[r].isNone
        /\ pbf[r] = [isNone |-> FALSE, val |-> ConcatNonNull(rows[r].val)]
C10_ResponseStep ==
    \A r \in Req : (pc[r] = "release_tile" /\ exc[r] = "none" /\ pc'[r] = "idle") =>
        resp' = [status |-> 200, body |-> ConcatNonNull(rows[r].val),
                 ctype |-> "application/x-protobuf"]
C10_BodyIsNonNullPayloads == [](C10_PbfIsConcat) /\ [][C10_ResponseStep]_vars
\* A null row followed by a payload was returned and joined.
C10_Witness ==
    \E r \in Req :
        /\ pc[r] = "release_tile"
        /\ rows[r].val = <<[isNone |-> TRUE, val |-> <<>>], [isNone |-> FALSE, val |-> <<2>>]>>
        /\ pbf[r].val = <<2>>

\* ------------------------------------------------------------------ C11
\* C11: for every zoom z and every x, y in 0..2^z-1 the cell sql_bbox returns
\* spans left + x*w .. left + (x+1)*w and top - y*h .. top - (y+1)*h with
\* 2^z * w the width and 2^z * h the height of the extent; its right edge is
\* the left edge of cell x+1 and its bottom edge the top edge of cell y+1; the
\* cells of the first and last column and row end on the extent; and the
\* minimum length is w/50.
C11_CellsTileExtent ==
    (call.fn = "sql_bbox" /\ ret.done) =>
        LET x == call.args[1]
            y == call.args[2]
            z == call.args[3]
            n == 2 ^ z
            b == ret.val.bounds
            w == b.right - b.left
            h == b.top - b.bottom
        IN  /\ w > 0 /\ h > 0
            /\ n * w = map_bbox.right - map_bbox.left
            /\ n * h = map_bbox.top - map_bbox.bottom
            /\ b.left = map_bbox.left + x * w
            /\ b.top = map_bbox.top - y * h
            /\ x + 1 < n => b.right = sql_bbox(x + 1, y, z, "3949").bounds.left
            /\ y + 1 < n => b.bottom = sql_bbox(x, y + 1, z, "3949").bounds.top
            /\ x = 0 => b.left = map_bbox.left
            /\ x + 1 = n => b.right = map_bbox.right
            /\ y = 0 => b.top = map_bbox.top
            /\ y + 1 = n => b.bottom = map_bbox.bottom
            /\ ret.val.min_length.num * 50 = w * ret.val.min_length.den
\* The cell in the last column and the second row at the deepest zoom.
C11_Witness ==
    /\ call.fn = "sql_bbox"
    /\ ret.done
    /\ call.args = <<2 ^ MaxZoom - 1, 1, MaxZoom>>
    /\ ret.val.bounds.right = map_bbox.right
    /\ ret.val.bounds.top < map_bbox.top

\* ------------------------------------------------------------------ C12
\* The table text is exactly '(' inner-select ')' 'as' alias.
WellShaped(table) ==
    /\ Len(table) >= 4
    /\ table[1] = "("
    /\ table[Len(table) - 2] = ")"
    /\ table[Len(table) - 1] \in AsKeyword
    /\ table[Len(table)] \notin NonWord
\* C12: prepared_query fails for every descriptor set holding a table text
\* that is not exactly of that shape (no wrapper, no alias, or content after
\* the alias); it never returns a template for it.
C12_MalformedTableFails ==
    (call.fn = "prepared_query" /\ ret.done
        /\ \E i \in 1..Len(call.args) : ~WellShaped(call.args[i].Datasource.table))
    => ~ret.val.ok

\* ------------------------------------------------------------------ C13
\* The five names of the tile query's parameters.
FiveFields ==
    {"{bbox}", "{scale_denominator}", "{pixel_width}", "{pixel_height}", "{min_length}"}
\* C13: a template prepared_query returns holds no replacement field other
\* than the five, and formatting it with the five values does not fail.
C13_OnlyFiveFields ==
    (call.fn = "prepared_query" /\ ret.done /\ ret.val.ok) =>
        /\ \A i \in 1..Len(ret.val.val) :
              ret.val.val[i] \in ReplacementFields => ret.val.val[i] \in FiveFields
        /\ ret.formatted => ret.sql.ok

\* ------------------------------------------------------------------ C14
\* C14: the template compiled from n accepted descriptors holds n per-layer
\* selects, the i-th encoding the id of the i-th descriptor, with 'union all'
\* before each but the first; from no descriptor it is the empty text.
C14_OneSelectPerLayerInOrder ==
    (call.fn = "prepared_query" /\ ret.done /\ ret.val.ok) =>
        LET L == call.args
            text == ret.val.val
            starts == {i \in 1..Len(text) : text[i] = "select st_asmvt(tile, '"}
        IN  /\ LayerIdsFrom(text, 1) = [i \in 1..Len(L) |-> L[i].id]
            /\ Cardinality(starts) = Len(L)
            /\ \A i \in starts : i = 1 \/ text[i - 1] = "union all"
            /\ Cardinality({i \in 1..Len(text) : text[i] = "union all"}) = Len(L) - (IF L = <<>> THEN 0 ELSE 1)
            /\ L = <<>> => text = <<>>
\* Two different accepted descriptors were compiled, the catalog's one last.
C14_Witness ==
    /\ call.fn = "prepared_query"
    /\ ret.done
    /\ ret.val.ok
    /\ call.args = <<Descriptor("roads", TableAllTokens), Source(TableA)>>
    /\ LayerIdsFrom(ret.val.val, 1) = <<<<"roads">>, TableA>>

\* ------------------------------------------------------------------ C15
\* The call of the procedure of table t, as line 183 writes it and lines
\* 116-120 rewrite its tokens.
ProcedureCall(t) ==
    <<"layer_">> \o t \o <<"(", "{bbox}", "::box2d", ",", "{min_length}", "::float", ")">>
CallsProcedure(text, t) ==
    \E i \in 1..Len(text) :
        /\ i + Len(ProcedureCall(t)) - 1 <= Len(text)
        /\ SubSeq(text, i, i + Len(ProcedureCall(t)) - 1) = ProcedureCall(t)
\* C15: the query a refresh installs holds one layer for each row whose table
\* name holds 3949 and none for any other table, no table twice, and each
\* layer calls the procedure layer_<table> of its table with the bbox and
\* min_length placeholders.
C15_InstallStep ==
    \A r \in Req :
        (AutoMode /\ pc[r] = "fetch_catalog" /\ pc'[r] = "release_catalog" /\ exc'[r] = "none") =>
        LET M == Matching(Range(inflight[r].val))
        IN  /\ ~tm2query'.isNone
            /\ LayerIdSet(tm2query'.val) = M
            /\ Len(LayerIdsFrom(tm2query'.val, 1)) = Cardinality(M)
            /\ \A t \in M : CallsProcedure(tm2query'.val, t)
C15_OneLayerPerMatchingTable == [][C15_InstallStep]_vars

\* ------------------------------------------------------------------ C16
\* C16: a refresh whose introspection read the schema before the read the
\* installed query was built from does not replace that query by a different
\* one: after overlapping refreshes the cache holds the query of the more
\* recent read.
C16_InstallStep ==
    \A r \in Req :
        (/\ AutoMode
         /\ pc[r] = "fetch_catalog" /\ pc'[r] = "release_catalog" /\ exc'[r] = "none"
         /\ "cache" \in later[r])
        => LayerIdSet(tm2query'.val) = LayerIdSet(tm2query.val)
C16_NewerReadWins == [][C16_InstallStep]_vars

\* ------------------------------------------------------------------ C17
\* C17: in auto mode the step that formats a request's sql formats the query
\* installed at that moment; when the request came straight from its check of
\* line 171 that query was installed at most the refresh interval before the
\* check, and when it came through a refresh the query was installed at or
\* after its check.
C17_FormatStep ==
    \A r \in Req :
        (AutoMode /\ pc'[r] = "acquire_tile" /\ pc[r] \in {"idle", "release_catalog"}) =>
        /\ ~tm2query.isNone
        /\ ~auto_tm2_ts.isNone
        /\ used'[r] = qid
        /\ sql'[r] = [isNone |-> FALSE, val |-> Format(tm2query.val, TileArgs)]
        /\ pc[r] = "idle" => now - auto_tm2_ts.val <= REFRESH_INTERVAL
        /\ pc[r] = "release_catalog" => auto_tm2_ts.val >= checked_at[r]
C17_NeverFormatsExpiredQuery == [][C17_FormatStep]_vars
\* A request found the query installed at time 0 expired at time 11,
\* refreshed, and formatted the query installed at 11.
C17_Witness ==
    /\ AutoMode
    /\ now = REFRESH_INTERVAL + 1
    /\ auto_tm2_ts = SomeTs(REFRESH_INTERVAL + 1)
    /\ qid = 2
    /\ \E r \in Req : pc[r] = "acquire_tile" /\ used[r] = 2

\* ------------------------------------------------------------------ C18
\* C18: in auto mode, at every await, Config.tm2query is null exactly when
\* Config.auto_tm2_ts is; a query once set is never null again; and the stamp
\* never decreases.
C18_BothOrNeither == AutoMode => (tm2query.isNone <=> auto_tm2_ts.isNone)
C18_Step ==
    AutoMode =>
        /\ ~tm2query.isNone => ~tm2query'.isNone
        /\ ~auto_tm2_ts.isNone =>
              (~auto_tm2_ts'.isNone /\ auto_tm2_ts'.val >= auto_tm2_ts.val)
C18_CacheFieldsAgree == [](C18_BothOrNeither) /\ [][C18_Step]_vars
\* The query was replaced twice after it was first installed, the last time
\* with a later stamp, while a request is suspended in its tile query.
C18_Witness ==
    /\ AutoMode
    /\ qid = 3
    /\ auto_tm2_ts.val > 0
    /\ \E r \in Req : pc[r] = "fetch_tile"

\* ------------------------------------------------------------------ C19
\* C19: the pool never hands out more connections than it has, each request
\* task holds one connection inside an async with block and none outside, the
\* connection of the introspection is back in the pool when the task starts
\* to wait for the connection of the tile query; and with store calls that
\* terminate and fair scheduling every request in flight ends.
C19_OneConnectionEach ==
    /\ checked_out <= db_size
    /\ checked_out = Cardinality({r \in Req : pc[r] \in HoldingPcs})
C19_ReleasedBeforeNextAcquire ==
    \A r \in Req :
        (pc[r] = "release_catalog" /\ pc'[r] = "acquire_tile") => checked_out' = checked_out - 1
C19_EveryRequestCompletes ==
    /\ [](C19_OneConnectionEach)
    /\ [][C19_ReleasedBeforeNextAcquire]_vars
    /\ \A r \in Req : (pc[r] # "idle") ~> (pc[r] = "idle")
\* Both requests need the one connection of the pool: one holds it after its
\* refresh, the other waits for it.
C19_Witness ==
    /\ db_size = 1
    /\ checked_out = 1
    /\ \E r1, r2 \in Req :
          /\ pc[r1] = "release_catalog"
          /\ pc[r2] \in {"acquire_catalog", "acquire_tile"}

====
